---- MODULE Spec2Model ----
(***************************************************************************)
(* storm::mpmc_queue (condition-variable variant, "Queue-CV") and          *)
(* storm::mpmc_semaphore_queue (counting-semaphore variant, "Queue-Sem")   *)
(* as a state machine of threads that call the public operations of the    *)
(* queue instances.  One step of a thread is one synchronisation event of  *)
(* the C++ code: a lock acquisition, the critical section up to the        *)
(* release of the lock, a notify, a semaphore acquire or release.          *)
(***************************************************************************)
EXTENDS Integers, Sequences, FiniteSets, TLC

\* ------------------------------------------------------------------ bounds
\* Calls the workers of the general specifications make in total.
MaxOps == 3
\* Items moved by the producer/consumer test (num_items, scaled down).
NumItems == 2
\* Calls of swap made one after the other, and elements a queue holds before.
MaxSwaps == 3
MaxFill == 2
\* Calls the single thread of the accounting test makes.
MaxCalls == 5

\* ------------------------------------------------------------- vocabulary
Threads == {"t1", "t2", "t3", "t4"}
\* Two queue instances, so that swap has something to exchange.
Insts == {"a", "b"}
NoOne == "nobody"
OtherInst(i) == IF i = "a" THEN "b" ELSE "a"

VARIABLES
    variant,    \* "cv": the instances are mpmc_queue; "sem": mpmc_semaphore_queue
    q,          \* q[i]: the std::queue of instance i, front first
    mtx,        \* mtx[i]: the thread holding the shared_mutex exclusively, or NoOne
    rd,         \* rd[i]: the threads holding the shared_mutex in shared mode
    cv,         \* cv[i]: the threads blocked in the condition variable of i
    available,  \* available[i]: the counter of the counting_semaphore of i
    th,         \* th[t]: the call thread t is in (or was in last), see Thread
    role,       \* role[t]: which calls the worker t makes
    left,       \* left[t]: how many calls a worker with a quota still makes
    ops,        \* how many calls the workers without a quota still make in all
    nid,        \* number of elements handed to push/emplace so far
    pushed,     \* pushed[i]: the elements appended to q[i], in append order
    popped,     \* popped[i]: what removal calls on i returned, in removal order
    ub          \* a call ran into undefined behaviour (front()/pop() of an empty queue)

vars == <<variant, q, mtx, rd, cv, available, th, role, left, ops, nid,
          pushed, popped, ub>>
work == <<variant, role, left, ops, nid>>
hist == <<pushed, popped, ub>>

\* ---------------------------------------------------------- return values
\* kind: "unset" (call in flight), "void", "nothing" (empty std::optional),
\* "elem" (an element, elem is its id), "copy" (the copy of its element that
\* emplace returns), "ref" (a reference to the element elem of a buffer),
\* "garbage" (an engaged result read from an empty queue), "crash",
\* "size", "bool" (num is the value).  Element ids start at 1; 0 is no element.
Ret(k, e, n) == [kind |-> k, elem |-> e, num |-> n]
Unset == Ret("unset", 0, 0)
Void == Ret("void", 0, 0)
Nothing == Ret("nothing", 0, 0)
Elem(e) == Ret("elem", e, 0)

\* ------------------------------------------------------------ thread state
\* pc: where the thread is inside the call ("idle": between calls);
\* op, self: the member function and the instance it is called on;
\* arg: the element passed to push/emplace; oth: the `other` of swap;
\* fst: the mutex std::lock takes with a blocking lock() next;
\* dl: the deadline of a bounded wait: "na", "pending", "expired";
\* got: the call has taken a permit from the semaphore;
\* ret: what the call returned.
Thread(p, o, i, a, x, f, d, g, r) ==
    [pc |-> p, op |-> o, self |-> i, arg |-> a, oth |-> x, fst |-> f,
     dl |-> d, got |-> g, ret |-> r]

At(t, p) == ~ub /\ th[t].pc = p
Goto(t, p) == th' = [th EXCEPT ![t].pc = p]
\* The call of t ends and returns r; its locals are gone.
Finish(t, r) ==
    th' = [th EXCEPT ![t] =
              Thread("idle", @.op, @.self, 0, @.self, @.self, "na", @.got, r)]

\* ------------------------------------------------------------- primitives
\* std::shared_mutex: lock() needs no owner and no reader, lock_shared() no owner.
CanLockAlways(i) == TRUE
CanLock(i) == mtx[i] = NoOne /\ rd[i] = {}
CanLockShared(i) == mtx[i] = NoOne
\* Thread t takes the mutex of i exclusively (lock_guard / unique_lock).
Lock(t, i) == CanLock(i) /\ mtx' = [mtx EXCEPT ![i] = t]
\* Thread t releases it (end of the scope of the lock object).
UnlockKept(t, i) == UNCHANGED mtx
Unlock(t, i) == mtx' = [mtx EXCEPT ![i] = NoOne]

\* q.push(t) / q.emplace(args...): the element goes to the back.
PushBack(s, e) == Append(s, e)
\* q.front(): the element at the front.
Front(s) == Head(s)
\* q.pop(): the front element leaves the queue.
PopFrontDrop(s) == s
PopFront(s) == Tail(s)

\* cv.notify_one(): one of the blocked threads, if there is any, is unblocked.
NotifyOneNobody(i) == UNCHANGED cv
NotifyOne(i) ==
    IF cv[i] = {} THEN UNCHANGED cv
    ELSE \E w \in cv[i] : cv' = [cv EXCEPT ![i] = @ \ {w}]

\* cv.notify_all(): every thread blocked on the condition variable is unblocked.
NotifyAllNobody(i) == UNCHANGED cv
NotifyAll(i) == cv' = [cv EXCEPT ![i] = {}]

\* The predicate of the waits: [this](){ return !q.empty(); }
WaitPredTrue(i) == TRUE
WaitPred(i) == q[i] # <<>>

\* front() then pop() inside the critical section of a removal, which the call
\* leaves returning the element.  On an empty std::queue both are undefined
\* behaviour: the call returns an engaged result of indeterminate value, or the
\* thread crashes; either way the model follows the program no further.
TakeFront(t, i) ==
    IF q[i] # <<>>
    THEN /\ q' = [q EXCEPT ![i] = PopFront(q[i])]
         /\ popped' = [popped EXCEPT ![i] = Append(@, Front(q[i]))]
         /\ Finish(t, Elem(Front(q[i])))
         /\ UNCHANGED ub
    ELSE /\ ub' = TRUE
         /\ UNCHANGED q
         /\ \E outcome \in {"garbage", "crash"} :
               /\ Finish(t, Ret(outcome, 0, 0))
               /\ popped' = [popped EXCEPT ![i] =
                                IF outcome = "garbage" THEN Append(@, 0) ELSE @]

\* ------------------------------------------------------------ the workers
\* A call: the member function, the instance it is called on, swap's argument.
Call(o, i, x) == [op |-> o, inst |-> i, other |-> x]

Inserts == {"push", "emplace"}
\* pop_wait_until is pop_wait_for with the deadline given as a time point: the
\* same statements around wait_until / try_acquire_until.  The deadline of the
\* model is only pending or expired, so one call stands for both.
BoundedPops == {"pop_wait_for"}
Removals == {"try_pop", "pop_wait"} \cup BoundedPops
Queries == {"size", "empty"}

\* Roles without a quota of their own: they share the budget ops.
FreeRoles == {"any_cv", "any_cv_noswap", "any_sem", "sem_waits"}

\* The calls a worker of each role makes.
RoleCalls(r) ==
    CASE r = "any_cv" ->
            {Call(o, i, i) : o \in Inserts \cup Removals, i \in Insts}
            \cup {Call("swap", i, OtherInst(i)) : i \in Insts}
      [] r = "any_cv_noswap" ->
            {Call(o, i, i) : o \in Inserts \cup Removals, i \in Insts}
      [] r = "any_sem" -> {Call(o, "a", "a") : o \in Inserts \cup Removals}
      [] r = "sem_waits" ->
            {Call(o, "a", "a") : o \in Inserts \cup {"pop_wait"} \cup BoundedPops}
      [] r = "normal_producer" -> {Call("push", "a", "a")}
      [] r = "normal_consumer" -> {Call("pop_wait", "a", "a")}
      [] r = "insert_a" -> {Call(o, "a", "a") : o \in Inserts}
      [] r = "insert_b" -> {Call(o, "b", "b") : o \in Inserts}
      [] r = "pop_wait_a" -> {Call("pop_wait", "a", "a")}
      [] r = "pop_wait_b" -> {Call("pop_wait", "b", "b")}
      [] r = "swap_either" -> {Call("swap", i, OtherInst(i)) : i \in Insts}
      [] r = "push_and_size" ->
            {Call(o, "a", "a") : o \in Inserts \cup {"try_pop"} \cup Queries}
      [] r = "bounded_a" -> {Call(o, "a", "a") : o \in BoundedPops}
      [] r = "bounded_b" -> {Call(o, "b", "b") : o \in BoundedPops}
      [] r = "try_pop_a" -> {Call("try_pop", "a", "a")}
      [] r = "remove_a" -> {Call(o, "a", "a") : o \in Removals}
      [] r = "mutator_a" -> {Call(o, "a", "a") : o \in Inserts \cup Removals}
      [] r = "query_a" -> {Call(o, "a", "a") : o \in Queries}
      [] r = "swap_ab" -> {Call("swap", "a", "b")}
      [] r = "swap_ba" -> {Call("swap", "b", "a")}
      [] r = "swap_self" -> {Call("swap", "a", "a")}
      [] r = "emplace_a" -> {Call("emplace", "a", "a")}
      [] OTHER -> {}

\* Where a call starts.
Entry(o) ==
    CASE o \in Inserts -> IF variant = "cv" THEN o \o "_lock" ELSE "s_ins_lock"
      [] o = "try_pop" -> IF variant = "cv" THEN "tp_lock" ELSE "s_try"
      [] o = "pop_wait" -> IF variant = "cv" THEN "pw_lock" ELSE "s_acquire"
      [] o \in BoundedPops -> IF variant = "cv" THEN "pw_lock" ELSE "s_acquire_for"
      [] o \in Queries -> "rd_lock"
      [] o = "swap" -> "sw_lock"

\* The workers without a quota are interchangeable: they make their first calls
\* in the order t1, t2, t3 (any run is such a run up to their names).
Before(t) == CASE t = "t2" -> {"t1"} [] t = "t3" -> {"t2"} [] OTHER -> {}
StartsInOrder(t) ==
    role[t] \in FreeRoles => \A u \in Before(t) : th[u].op # "none"
\* The two instances are interchangeable too: the very first call of such
\* workers is made on a.
FirstOnA(t, c) ==
    (role[t] \in FreeRoles /\ \A u \in Threads : th[u].op = "none") => c.inst = "a"

\* Worker t calls one of the member functions its role allows.  An inserted
\* element is a new one: elements are told apart by their ids.
Begin(t) ==
    /\ At(t, "idle")
    /\ StartsInOrder(t)
    /\ IF role[t] \in FreeRoles
       THEN ops > 0 /\ ops' = ops - 1 /\ UNCHANGED left
       ELSE left[t] > 0 /\ left' = [left EXCEPT ![t] = @ - 1] /\ UNCHANGED ops
    /\ \E c \in RoleCalls(role[t]) :
          /\ FirstOnA(t, c)
          /\ th' = [th EXCEPT ![t] =
                      Thread(Entry(c.op), c.op, c.inst,
                             IF c.op \in Inserts THEN nid + 1 ELSE 0,
                             c.other, c.inst,
                             IF c.op \in BoundedPops THEN "pending" ELSE "na",
                             FALSE, Unset)]
          /\ nid' = IF c.op \in Inserts THEN nid + 1 ELSE nid
    /\ UNCHANGED <<q, mtx, rd, cv, available, hist, variant, role>>

\* The deadline of the bounded wait of t passes.  The call reads the clock only
\* as a wait ends (wait_until, try_acquire_for), so the step is taken there.
Expire(t) ==
    /\ ~ub
    /\ th[t].pc \in {"pw_wait", "s_acquire_for"}
    /\ th[t].dl = "pending"
    /\ th' = [th EXCEPT ![t].dl = "expired"]
    /\ UNCHANGED <<q, mtx, rd, cv, available, hist, work>>

\* ------------------------------------------------ mpmc_queue (Queue-CV)
\* A push that waits until the consumers have emptied the buffer.
PushLockWhenEmpty(t) ==
    /\ At(t, "push_lock")
    /\ q[th[t].self] = <<>>
    /\ Lock(t, th[t].self)
    /\ Goto(t, "push_cs")
    /\ UNCHANGED <<q, rd, cv, available, hist, work>>

\* push(const T&) and push(T&&): lock_guard, q.push, end of scope, cv.notify_one.
PushLock(t) ==
    /\ At(t, "push_lock")
    /\ Lock(t, th[t].self)
    /\ Goto(t, "push_cs")
    /\ UNCHANGED <<q, rd, cv, available, hist, work>>

PushAppend(t) ==
    /\ At(t, "push_cs")
    /\ q' = [q EXCEPT ![th[t].self] = PushBack(@, th[t].arg)]
    /\ pushed' = [pushed EXCEPT ![th[t].self] = Append(@, th[t].arg)]
    /\ Unlock(t, th[t].self)
    /\ Goto(t, "push_notify")
    /\ UNCHANGED <<rd, cv, available, popped, ub, work>>

PushNotify(t) ==
    /\ At(t, "push_notify")
    /\ NotifyOne(th[t].self)
    /\ Finish(t, Void)
    /\ UNCHANGED <<q, mtx, rd, available, hist, work>>

\* emplace: lock_guard for the whole body; q.emplace, cv.notify_one, return r.
EmplaceLock(t) ==
    /\ At(t, "emplace_lock")
    /\ Lock(t, th[t].self)
    /\ Goto(t, "emplace_cs")
    /\ UNCHANGED <<q, rd, cv, available, hist, work>>

EmplaceAppend(t) ==
    /\ At(t, "emplace_cs")
    /\ q' = [q EXCEPT ![th[t].self] = PushBack(@, th[t].arg)]
    /\ pushed' = [pushed EXCEPT ![th[t].self] = Append(@, th[t].arg)]
    /\ NotifyOne(th[t].self)
    /\ Goto(t, "emplace_ret")
    /\ UNCHANGED <<mtx, rd, available, popped, ub, work>>

\* An emplace that returns the reference q.emplace gave it.
EmplaceReturnsReference(t) ==
    /\ At(t, "emplace_ret")
    /\ Unlock(t, th[t].self)
    /\ Finish(t, Ret("ref", th[t].arg, 0))
    /\ UNCHANGED <<q, rd, cv, available, hist, work>>

\* auto r = q.emplace(...) made r a copy of the new element (auto drops the
\* reference), and return r under decltype(auto) returns that object by value:
\* the caller gets its own copy as the lock goes.
EmplaceReturn(t) ==
    /\ At(t, "emplace_ret")
    /\ Unlock(t, th[t].self)
    /\ Finish(t, Ret("copy", th[t].arg, 0))
    /\ UNCHANGED <<q, rd, cv, available, hist, work>>

\* try_pop: lock_guard; if(q.empty()) return nullopt; front, pop, return.
TryPopLock(t) ==
    /\ At(t, "tp_lock")
    /\ Lock(t, th[t].self)
    /\ Goto(t, "tp_cs")
    /\ UNCHANGED <<q, rd, cv, available, hist, work>>

TryPopEmptyInverted(i) == q[i] # <<>>
TryPopEmpty(i) == q[i] = <<>>

TryPopTake(t) ==
    /\ At(t, "tp_cs")
    /\ IF TryPopEmpty(th[t].self)
       THEN Finish(t, Nothing) /\ UNCHANGED <<q, popped, ub>>
       ELSE TakeFront(t, th[t].self)
    /\ Unlock(t, th[t].self)
    /\ UNCHANGED <<rd, cv, available, pushed, work>>

\* pop_wait / pop_wait_for / pop_wait_until: unique_lock, then the wait with
\* the predicate, which is  while(!pred()) wait(lk);  the bounded waits return
\* pred() once a wait reports that the deadline has passed.
PopWaitLock(t) ==
    /\ At(t, "pw_lock")
    /\ Lock(t, th[t].self)
    /\ Goto(t, "pw_pred")
    /\ UNCHANGED <<q, rd, cv, available, hist, work>>

\* A wait that blocks on the condition variable with the mutex still held.
PopWaitPredKeepsLock(t) ==
    /\ At(t, "pw_pred")
    /\ IF WaitPred(th[t].self)
       THEN Goto(t, "pw_take") /\ UNCHANGED cv
       ELSE /\ cv' = [cv EXCEPT ![th[t].self] = @ \cup {t}]
            /\ Goto(t, "pw_wait")
    /\ UNCHANGED <<q, mtx, rd, available, hist, work>>

\* The predicate is evaluated under the lock: true ends the wait; false makes
\* the thread release the mutex and block on the condition variable, atomically.
PopWaitPred(t) ==
    /\ At(t, "pw_pred")
    /\ IF WaitPred(th[t].self)
       THEN Goto(t, "pw_take") /\ UNCHANGED <<mtx, cv>>
       ELSE /\ Unlock(t, th[t].self)
            /\ cv' = [cv EXCEPT ![th[t].self] = @ \cup {t}]
            /\ Goto(t, "pw_wait")
    /\ UNCHANGED <<q, rd, available, hist, work>>

\* A blocked thread may wake up without any notify (spurious wake-up).
SpuriousWake(t) ==
    /\ At(t, "pw_wait")
    /\ t \in cv[th[t].self]
    /\ cv' = [cv EXCEPT ![th[t].self] = @ \ {t}]
    /\ UNCHANGED <<q, mtx, rd, available, th, hist, work>>

\* A blocked bounded wait wakes up because its deadline has passed.
TimeoutWake(t) ==
    /\ At(t, "pw_wait")
    /\ t \in cv[th[t].self]
    /\ th[t].dl = "expired"
    /\ cv' = [cv EXCEPT ![th[t].self] = @ \ {t}]
    /\ UNCHANGED <<q, mtx, rd, available, th, hist, work>>

\* A wait that takes every wake-up for a timeout.
PopWaitRelockTimesOut(t) ==
    /\ At(t, "pw_wait")
    /\ t \notin cv[th[t].self]
    /\ Lock(t, th[t].self)
    /\ Goto(t, "pw_timeout")
    /\ UNCHANGED <<q, rd, cv, available, hist, work>>

\* An unblocked thread takes the mutex again before wait() returns.  A bounded
\* wait whose deadline has passed then returns pred(); every other wait goes
\* round the loop and evaluates the predicate again.
PopWaitRelock(t) ==
    /\ At(t, "pw_wait")
    /\ t \notin cv[th[t].self]
    /\ Lock(t, th[t].self)
    /\ Goto(t, IF th[t].dl = "expired" THEN "pw_timeout" ELSE "pw_pred")
    /\ UNCHANGED <<q, rd, cv, available, hist, work>>

\* A bounded wait that reports the timeout without looking at the buffer.
PopWaitTimeoutGivesUp(t) ==
    /\ At(t, "pw_timeout")
    /\ Unlock(t, th[t].self) /\ Finish(t, Nothing)
    /\ UNCHANGED <<q, rd, cv, available, hist, work>>

\* if(!cv.wait_for(...)) return std::optional<T>();
PopWaitTimeout(t) ==
    /\ At(t, "pw_timeout")
    /\ IF WaitPred(th[t].self)
       THEN Goto(t, "pw_take") /\ UNCHANGED mtx
       ELSE Unlock(t, th[t].self) /\ Finish(t, Nothing)
    /\ UNCHANGED <<q, rd, cv, available, hist, work>>

\* T t(std::move(q.front())); q.pop(); return t;
PopWaitTake(t) ==
    /\ At(t, "pw_take")
    /\ TakeFront(t, th[t].self)
    /\ Unlock(t, th[t].self)
    /\ UNCHANGED <<rd, cv, available, pushed, work>>

\* empty() / size(): shared_lock, read, end of scope.
ReadLock(t) ==
    /\ At(t, "rd_lock")
    /\ CanLockShared(th[t].self)
    /\ rd' = [rd EXCEPT ![th[t].self] = @ \cup {t}]
    /\ Goto(t, "rd_cs")
    /\ UNCHANGED <<q, mtx, cv, available, hist, work>>

\* A size() that is one too large, and an empty() that goes by it.
ReadQueryOneMore(t) ==
    /\ At(t, "rd_cs")
    /\ rd' = [rd EXCEPT ![th[t].self] = @ \ {t}]
    /\ Finish(t, IF th[t].op = "size"
                 THEN Ret("size", 0, Len(q[th[t].self]) + 1)
                 ELSE Ret("bool", 0, 0))
    /\ UNCHANGED <<q, mtx, cv, available, hist, work>>

ReadQuery(t) ==
    /\ At(t, "rd_cs")
    /\ rd' = [rd EXCEPT ![th[t].self] = @ \ {t}]
    /\ Finish(t, IF th[t].op = "size"
                 THEN Ret("size", 0, Len(q[th[t].self]))
                 ELSE Ret("bool", 0, IF q[th[t].self] = <<>> THEN 1 ELSE 0))
    /\ UNCHANGED <<q, mtx, cv, available, hist, work>>

\* swap: std::scoped_lock lk(mtx, other.mtx) is std::lock(mtx, other.mtx):
\* lock() one mutex, try_lock() the other, and on failure unlock the first and
\* start again with the one that could not be taken.
SecondOf(t) == IF th[t].fst = th[t].self THEN th[t].oth ELSE th[t].self

SwapLockFirst(t) ==
    /\ At(t, "sw_lock")
    /\ Lock(t, th[t].fst)
    /\ Goto(t, "sw_try")
    /\ UNCHANGED <<q, rd, cv, available, hist, work>>

\* try_lock() of the second mutex succeeds: both are held.
SwapTryOk(t) ==
    /\ At(t, "sw_try")
    /\ Lock(t, SecondOf(t))
    /\ Goto(t, "sw_cs")
    /\ UNCHANGED <<q, rd, cv, available, hist, work>>

\* A lock of the second mutex that keeps the first one while it waits.
SwapTryKeepsFirst(t) == FALSE

\* try_lock() fails (the mutex is taken, or spuriously, as try_lock may): the
\* first mutex is given back and the roles of the two are exchanged.
SwapTryFail(t) ==
    /\ At(t, "sw_try")
    /\ Unlock(t, th[t].fst)
    /\ th' = [th EXCEPT ![t].pc = "sw_lock", ![t].fst = SecondOf(t)]
    /\ UNCHANGED <<q, rd, cv, available, hist, work>>

\* try_lock() of scoped_lock on the mutex the thread took with lock() just
\* before, as in a.swap(a): try_lock of a std::shared_mutex the caller owns is
\* undefined behaviour.  It reports failure, and std::lock gives the mutex
\* back to start again, or the thread crashes; either way the model follows
\* the program no further.
SwapTryOwned(t) ==
    /\ At(t, "sw_try")
    /\ mtx[SecondOf(t)] = t
    /\ ub' = TRUE
    /\ \E outcome \in {"fails", "crash"} :
          IF outcome = "fails"
          THEN /\ Unlock(t, th[t].fst)
               /\ th' = [th EXCEPT ![t].pc = "sw_lock"]
          ELSE /\ UNCHANGED mtx
               /\ Finish(t, Ret("crash", 0, 0))
    /\ UNCHANGED <<q, rd, cv, available, pushed, popped, work>>

\* An exchange that overwrites this buffer and leaves the other as it was.
SwapExchangeCopy(t) ==
    /\ At(t, "sw_cs")
    /\ q' = [q EXCEPT ![th[t].self] = q[th[t].oth]]
    /\ mtx' = [mtx EXCEPT ![th[t].self] = NoOne, ![th[t].oth] = NoOne]
    /\ Goto(t, "sw_notify")
    /\ UNCHANGED <<rd, cv, available, hist, work>>

\* q.swap(other.q), then both mutexes are released at the end of the scope.
SwapExchange(t) ==
    /\ At(t, "sw_cs")
    /\ q' = [q EXCEPT ![th[t].self] = q[th[t].oth], ![th[t].oth] = q[th[t].self]]
    /\ mtx' = [mtx EXCEPT ![th[t].self] = NoOne, ![th[t].oth] = NoOne]
    /\ Goto(t, "sw_notify")
    /\ UNCHANGED <<rd, cv, available, hist, work>>

\* cv.notify_all(); other.cv.notify_all();
SwapNotifyThis(t) ==
    /\ At(t, "sw_notify")
    /\ NotifyAll(th[t].self)
    /\ Goto(t, "sw_notify_other")
    /\ UNCHANGED <<q, mtx, rd, available, hist, work>>

SwapNotifyOther(t) ==
    /\ At(t, "sw_notify_other")
    /\ NotifyAll(th[t].oth)
    /\ Finish(t, Void)
    /\ UNCHANGED <<q, mtx, rd, available, hist, work>>

\* --------------------------------------- mpmc_semaphore_queue (Queue-Sem)
\* push(const T&), push(T&&), emplace: lock_guard, append, end of scope,
\* available.release().
SemInsertLock(t) ==
    /\ At(t, "s_ins_lock")
    /\ Lock(t, th[t].self)
    /\ Goto(t, "s_ins_cs")
    /\ UNCHANGED <<q, rd, cv, available, hist, work>>

SemInsertAppend(t) ==
    /\ At(t, "s_ins_cs")
    /\ q' = [q EXCEPT ![th[t].self] = PushBack(@, th[t].arg)]
    /\ pushed' = [pushed EXCEPT ![th[t].self] = Append(@, th[t].arg)]
    /\ Unlock(t, th[t].self)
    /\ Goto(t, "s_ins_release")
    /\ UNCHANGED <<rd, cv, available, popped, ub, work>>

\* A release() of two permits for one element.
SemInsertReleaseTwo(t) ==
    /\ At(t, "s_ins_release")
    /\ available' = [available EXCEPT ![th[t].self] = @ + 2]
    /\ Finish(t, Void)
    /\ UNCHANGED <<q, mtx, rd, cv, hist, work>>

SemInsertRelease(t) ==
    /\ At(t, "s_ins_release")
    /\ available' = [available EXCEPT ![th[t].self] = @ + 1]
    /\ Finish(t, Void)
    /\ UNCHANGED <<q, mtx, rd, cv, hist, work>>

\* try_pop: if(available.try_acquire()) return std::optional<T>(); and only
\* when no permit was taken: lock_guard, front, pop.  try_acquire may fail
\* although the counter is positive.
TryPopGivesUp(acquired) == acquired

SemTryAcquire(t) ==
    /\ At(t, "s_try")
    /\ \E acquired \in (IF available[th[t].self] > 0 THEN {TRUE, FALSE} ELSE {FALSE}) :
          /\ available' = [available EXCEPT ![th[t].self] = IF acquired THEN @ - 1 ELSE @]
          /\ IF TryPopGivesUp(acquired)
             THEN th' = [th EXCEPT ![t] =
                     Thread("idle", @.op, @.self, 0, @.self, @.self, "na", acquired, Nothing)]
             ELSE th' = [th EXCEPT ![t].pc = "s_lock", ![t].got = acquired]
    /\ UNCHANGED <<q, mtx, rd, cv, hist, work>>

\* An acquire() that goes on when there is a permit and leaves it there.
SemAcquireKeepsPermit(t) ==
    /\ At(t, "s_acquire")
    /\ available[th[t].self] > 0
    /\ th' = [th EXCEPT ![t].pc = "s_lock", ![t].got = TRUE]
    /\ UNCHANGED <<q, mtx, rd, cv, available, hist, work>>

\* pop_wait: available.acquire() blocks until it can take a permit.
SemAcquire(t) ==
    /\ At(t, "s_acquire")
    /\ available[th[t].self] > 0
    /\ available' = [available EXCEPT ![th[t].self] = @ - 1]
    /\ th' = [th EXCEPT ![t].pc = "s_lock", ![t].got = TRUE]
    /\ UNCHANGED <<q, mtx, rd, cv, hist, work>>

\* A bounded acquire that goes on when there is a permit and leaves it there.
SemAcquireForKeepsPermit(t) ==
    /\ At(t, "s_acquire_for")
    /\ available[th[t].self] > 0
    /\ th' = [th EXCEPT ![t].pc = "s_lock", ![t].got = TRUE]
    /\ UNCHANGED <<q, mtx, rd, cv, available, hist, work>>

\* pop_wait_for / pop_wait_until: try_acquire_for / try_acquire_until take a
\* permit when there is one ...
SemAcquireFor(t) ==
    /\ At(t, "s_acquire_for")
    /\ available[th[t].self] > 0
    /\ available' = [available EXCEPT ![th[t].self] = @ - 1]
    /\ th' = [th EXCEPT ![t].pc = "s_lock", ![t].got = TRUE]
    /\ UNCHANGED <<q, mtx, rd, cv, hist, work>>

\* ... and give up once the deadline has passed: return std::optional<T>().
SemAcquireTimeout(t) ==
    /\ At(t, "s_acquire_for")
    /\ th[t].dl = "expired"
    /\ Finish(t, Nothing)
    /\ UNCHANGED <<q, mtx, rd, cv, available, hist, work>>

\* The removals then take the mutex: lock_guard, front, pop, return.
SemLock(t) ==
    /\ At(t, "s_lock")
    /\ Lock(t, th[t].self)
    /\ Goto(t, "s_take")
    /\ UNCHANGED <<q, rd, cv, available, hist, work>>

SemTake(t) ==
    /\ At(t, "s_take")
    /\ TakeFront(t, th[t].self)
    /\ Unlock(t, th[t].self)
    /\ UNCHANGED <<rd, cv, available, pushed, work>>

\* ---------------------------------------------------------- specifications
\* The state after construction: empty queues, free mutexes, no permit
\* (available(0)), no call made yet.
Fresh ==
    /\ q = [i \in Insts |-> <<>>]
    /\ mtx = [i \in Insts |-> NoOne]
    /\ rd = [i \in Insts |-> {}]
    /\ cv = [i \in Insts |-> {}]
    /\ available = [i \in Insts |-> 0]
    /\ th = [t \in Threads |-> Thread("idle", "none", "a", 0, "a", "a", "na", FALSE, Unset)]
    /\ nid = 0
    /\ pushed = [i \in Insts |-> <<>>]
    /\ popped = [i \in Insts |-> <<>>]
    /\ ub = FALSE

\* Three workers that call whatever the variant offers, MaxOps calls in all.
Workers == {"t1", "t2", "t3"}

\* The workers all have role r and share MaxOps calls.
FreeWorkers(r) ==
    /\ role = [t \in Threads |-> IF t \in Workers THEN r ELSE "off"]
    /\ left = [t \in Threads |-> 0]
    /\ ops = MaxOps

\* Either variant, every member function.
Init ==
    /\ Fresh
    /\ variant \in {"cv", "sem"}
    /\ FreeWorkers(IF variant = "cv" THEN "any_cv" ELSE "any_sem")

\* Either variant, every member function but swap.
InitNoSwap ==
    /\ Fresh
    /\ variant \in {"cv", "sem"}
    /\ FreeWorkers(IF variant = "cv" THEN "any_cv_noswap" ELSE "any_sem")

\* Queue-CV alone.
InitCV ==
    /\ Fresh
    /\ variant = "cv"
    /\ FreeWorkers("any_cv")

InsertCV(t) ==
    \/ PushLock(t) \/ PushAppend(t) \/ PushNotify(t)
    \/ EmplaceLock(t) \/ EmplaceAppend(t) \/ EmplaceReturn(t)

PopWaitCV(t) ==
    \/ PopWaitLock(t) \/ PopWaitPred(t) \/ PopWaitRelock(t) \/ PopWaitTake(t)
    \/ SpuriousWake(t)

TryPopCV(t) == TryPopLock(t) \/ TryPopTake(t)

BoundedCV(t) == Expire(t) \/ TimeoutWake(t) \/ PopWaitTimeout(t)

Query(t) == ReadLock(t) \/ ReadQuery(t)

SwapCV(t) ==
    \/ SwapLockFirst(t) \/ SwapTryOk(t) \/ SwapTryFail(t)
    \/ SwapExchange(t) \/ SwapNotifyThis(t) \/ SwapNotifyOther(t)

StepSem(t) ==
    \/ SemInsertLock(t) \/ SemInsertAppend(t) \/ SemInsertRelease(t)
    \/ SemTryAcquire(t) \/ SemAcquire(t) \/ SemAcquireFor(t) \/ SemAcquireTimeout(t)
    \/ SemLock(t) \/ SemTake(t)

StepCV(t) == InsertCV(t) \/ PopWaitCV(t) \/ TryPopCV(t) \/ BoundedCV(t) \/ SwapCV(t)

Next == \E t \in Threads : Begin(t) \/ StepCV(t) \/ StepSem(t)

Spec == Init /\ [][Next]_vars

NextNoSwap ==
    \E t \in Threads :
        Begin(t) \/ InsertCV(t) \/ PopWaitCV(t) \/ TryPopCV(t) \/ BoundedCV(t) \/ StepSem(t)

SpecNoSwap == InitNoSwap /\ [][NextNoSwap]_vars

NextCV == \E t \in Threads : Begin(t) \/ StepCV(t)

SpecCV == InitCV /\ [][NextCV]_vars

\* ---------------------------------------------------------------- scenarios
\* The steps of a call that the scheduler runs: all but a wake-up without
\* cause and the passing of a deadline.
ThreadStep(t) ==
    \/ Begin(t) \/ InsertCV(t)
    \/ PopWaitLock(t) \/ PopWaitPred(t) \/ PopWaitRelock(t) \/ PopWaitTake(t)
    \/ SwapCV(t)

\* Fair scheduling: a thread that can go on again and again does go on (a
\* mutex released again and again is acquired by the thread that waits for
\* it), and a try_lock that finds its mutex free again and again does not fail
\* for ever.
Fair == \A t \in Threads : SF_vars(ThreadStep(t)) /\ SF_vars(SwapTryOk(t))

Roles(r1, r2, r3, r4) ==
    role = [t \in Threads |->
              CASE t = "t1" -> r1 [] t = "t2" -> r2 [] t = "t3" -> r3 [] t = "t4" -> r4]
Calls(n1, n2, n3, n4) ==
    /\ left = [t \in Threads |->
                 CASE t = "t1" -> n1 [] t = "t2" -> n2 [] t = "t3" -> n3 [] t = "t4" -> n4]
    /\ ops = 0

\* One consumer in pop_wait and one producer making one insertion (push or
\* emplace), on each of the two instances.
InitBlock ==
    /\ Fresh
    /\ variant = "cv"
    /\ Roles("pop_wait_a", "insert_a", "pop_wait_b", "insert_b")
    /\ Calls(1, 1, 1, 1)

NextBlock == \E t \in Threads : Begin(t) \/ InsertCV(t) \/ PopWaitCV(t)

SpecBlock == InitBlock /\ [][NextBlock]_vars /\ Fair

\* test_with_concurrency(producers, consumers) of mpmc_queue_tests.cpp, with
\* num_items items instead of ten million.  (The latch only holds the workers
\* back until all have started.)
num_items == NumItems + 1

\* Every worker gets the quotient, the remainder is forgotten.
QuotaEven(k, w) == num_items \div w

\* The k-th of w workers: the quotient, and what is left for the last one.
Quota(k, w) ==
    IF k < w THEN num_items \div w ELSE num_items - (w - 1) * (num_items \div w)

InitMPMC ==
    /\ Fresh
    /\ variant = "cv"
    /\ \E producers, consumers \in 1..2 :
          /\ Roles("normal_producer", IF producers = 2 THEN "normal_producer" ELSE "off",
                   "normal_consumer", IF consumers = 2 THEN "normal_consumer" ELSE "off")
          /\ Calls(Quota(1, producers), IF producers = 2 THEN Quota(2, producers) ELSE 0,
                   Quota(1, consumers), IF consumers = 2 THEN Quota(2, consumers) ELSE 0)

NextMPMC ==
    \E t \in Threads :
        \/ Begin(t)
        \/ PushLock(t) \/ PushAppend(t) \/ PushNotify(t)
        \/ PopWaitCV(t)

\* The test calls no swap: fair scheduling is that of the threads' steps.
FairNoSwap == \A t \in Threads : SF_vars(ThreadStep(t))

SpecMPMC == InitMPMC /\ [][NextMPMC]_vars /\ FairNoSwap

\* a.swap(b) in one thread, b.swap(a) in another, twice each, and a producer.
InitSwap2 ==
    /\ Fresh
    /\ variant = "cv"
    /\ Roles("swap_ab", "swap_ba", "insert_a", "off")
    /\ Calls(2, 2, 1, 0)

NextSwap2 == \E t \in Threads : Begin(t) \/ InsertCV(t) \/ SwapCV(t)

SpecSwap2 == InitSwap2 /\ [][NextSwap2]_vars /\ Fair

\* A consumer in pop_wait on each instance, one insertion into b, one
\* a.swap(b).
InitSwapWake ==
    /\ Fresh
    /\ variant = "cv"
    /\ Roles("pop_wait_a", "pop_wait_b", "insert_b", "swap_ab")
    /\ Calls(1, 1, 1, 1)

NextSwapWake == \E t \in Threads : Begin(t) \/ InsertCV(t) \/ PopWaitCV(t) \/ SwapCV(t)

SpecSwapWake == InitSwapWake /\ [][NextSwapWake]_vars /\ Fair

\* Bounded removals on a (which gets one insertion) and on b (which gets
\* none), on either variant.  Time passes: a pending deadline expires.
TimedStep(t) ==
    \/ ThreadStep(t) \/ StepSem(t)
    \/ Expire(t) \/ TimeoutWake(t) \/ PopWaitTimeout(t)
\* No wait goes round its loop for ever with its deadline still ahead.
FairTimed == \A t \in Threads : SF_vars(TimedStep(t)) /\ SF_vars(Expire(t))

InitTimeout ==
    /\ Fresh
    /\ variant \in {"cv", "sem"}
    /\ Roles("bounded_a", "bounded_a", "insert_a", "bounded_b")
    /\ Calls(1, 1, 1, 1)

NextTimeout ==
    \E t \in Threads :
        \/ Begin(t) \/ Expire(t)
        \/ InsertCV(t)
        \/ PopWaitLock(t) \/ PopWaitPred(t) \/ SpuriousWake(t) \/ TimeoutWake(t)
        \/ PopWaitRelock(t) \/ PopWaitTimeout(t) \/ PopWaitTake(t)
        \/ SemInsertLock(t) \/ SemInsertAppend(t) \/ SemInsertRelease(t)
        \/ SemAcquireFor(t) \/ SemAcquireTimeout(t) \/ SemLock(t) \/ SemTake(t)

SpecTimeout == InitTimeout /\ [][NextTimeout]_vars /\ FairTimed

\* Queue-Sem with insertions and the removals that wait for a permit
\* (pop_wait, pop_wait_for / pop_wait_until), MaxOps calls in all.
InitSemWaits ==
    /\ Fresh
    /\ variant = "sem"
    /\ FreeWorkers("sem_waits")

NextSemWaits ==
    \E t \in Threads :
        \/ Begin(t) \/ Expire(t)
        \/ SemInsertLock(t) \/ SemInsertAppend(t) \/ SemInsertRelease(t)
        \/ SemAcquire(t) \/ SemAcquireFor(t) \/ SemAcquireTimeout(t)
        \/ SemLock(t) \/ SemTake(t)

SpecSemWaits == InitSemWaits /\ [][NextSemWaits]_vars

\* Producers on a, one consumer on a and one on b (which nobody serves), on
\* either variant.  Fair lock scheduling: an insertion goes on when it can,
\* and a thread inside a critical section leaves it.  Nothing makes a
\* consumer call, or wake up.
InsertStep(t) ==
    InsertCV(t) \/ SemInsertLock(t) \/ SemInsertAppend(t) \/ SemInsertRelease(t)
FairLocks ==
    \A t \in Threads :
        /\ SF_vars(InsertStep(t))
        /\ WF_vars(mtx[th[t].self] = t /\ (StepCV(t) \/ StepSem(t)))

InitProducers ==
    /\ Fresh
    /\ variant \in {"cv", "sem"}
    /\ Roles("insert_a", "insert_a", "pop_wait_a", "pop_wait_b")
    /\ Calls(2, 1, 1, 1)

NextProducers ==
    \E t \in Threads :
        \/ Begin(t) \/ InsertStep(t) \/ PopWaitCV(t)
        \/ SemAcquire(t) \/ SemLock(t) \/ SemTake(t)

SpecProducers == InitProducers /\ [][NextProducers]_vars /\ FairLocks

\* Producers that push num_items elements between them and consumers that
\* call pop_wait num_items times between them, on Queue-Sem, the work shared
\* out as test_with_concurrency shares it out.
SemThreadStep(t) ==
    \/ Begin(t)
    \/ SemInsertLock(t) \/ SemInsertAppend(t) \/ SemInsertRelease(t)
    \/ SemAcquire(t) \/ SemLock(t) \/ SemTake(t)
FairSem == \A t \in Threads : SF_vars(SemThreadStep(t))

InitMPMCSem ==
    /\ Fresh
    /\ variant = "sem"
    /\ \E producers, consumers \in 1..2 :
          /\ Roles("normal_producer", IF producers = 2 THEN "normal_producer" ELSE "off",
                   "normal_consumer", IF consumers = 2 THEN "normal_consumer" ELSE "off")
          /\ Calls(Quota(1, producers), IF producers = 2 THEN Quota(2, producers) ELSE 0,
                   Quota(1, consumers), IF consumers = 2 THEN Quota(2, consumers) ELSE 0)

NextMPMCSem == \E t \in Threads : SemThreadStep(t)

SpecMPMCSem == InitMPMCSem /\ [][NextMPMCSem]_vars /\ FairSem

\* One thread that calls a.swap(b) or b.swap(a) (storm::swap(a, b) is
\* a.swap(b)) MaxSwaps times; nothing else runs.  Before, a was given the
\* elements 1..m and b the elements MaxFill+1..MaxFill+n.
Filled(from, n) == [k \in 1..n |-> from + k]

InitSwapSeq ==
    /\ \E m, n \in 0..MaxFill :
          q = [i \in Insts |-> IF i = "a" THEN Filled(0, m) ELSE Filled(MaxFill, n)]
    /\ pushed = q
    /\ popped = [i \in Insts |-> <<>>]
    /\ nid = 2 * MaxFill
    /\ mtx = [i \in Insts |-> NoOne]
    /\ rd = [i \in Insts |-> {}]
    /\ cv = [i \in Insts |-> {}]
    /\ available = [i \in Insts |-> 0]
    /\ th = [t \in Threads |-> Thread("idle", "none", "a", 0, "a", "a", "na", FALSE, Unset)]
    /\ ub = FALSE
    /\ variant = "cv"
    /\ Roles("swap_either", "off", "off", "off")
    /\ Calls(MaxSwaps, 0, 0, 0)

NextSwapSeq == \E t \in Threads : Begin(t) \/ SwapCV(t)

SpecSwapSeq == InitSwapSeq /\ [][NextSwapSeq]_vars

\* test_push_and_size: one thread that inserts with push and emplace, asks
\* size() and empty(), and removes with try_pop, MaxCalls calls in all.
InitSingle ==
    /\ Fresh
    /\ variant = "cv"
    /\ Roles("push_and_size", "off", "off", "off")
    /\ Calls(MaxCalls, 0, 0, 0)

NextSingle == \E t \in Threads : Begin(t) \/ InsertCV(t) \/ TryPopCV(t) \/ Query(t)

SpecSingle == InitSingle /\ [][NextSingle]_vars

\* Two workers that insert into a and remove from it, a reader of size() and
\* empty() of a and, on Queue-CV, a thread that swaps a with b.
InitExcl ==
    /\ Fresh
    /\ variant \in {"cv", "sem"}
    /\ Roles("mutator_a", "mutator_a", "query_a",
             IF variant = "cv" THEN "swap_either" ELSE "off")
    /\ Calls(2, 1, 1, 1)

NextExcl == \E t \in Threads : Begin(t) \/ StepCV(t) \/ StepSem(t) \/ Query(t)

SpecExcl == InitExcl /\ [][NextExcl]_vars

\* Two or three consumers in pop_wait on a and one producer that makes a
\* single insertion (push or emplace) into a, on either variant; no other
\* insertion and no swap.
InitOneInsert ==
    /\ Fresh
    /\ variant \in {"cv", "sem"}
    /\ Roles("pop_wait_a", "pop_wait_a", "pop_wait_a", "insert_a")
    /\ \E third \in 0..1 : Calls(1, 1, third, 1)

NextOneInsert ==
    \E t \in Threads :
        \/ Begin(t) \/ InsertStep(t) \/ PopWaitCV(t)
        \/ SemAcquire(t) \/ SemLock(t) \/ SemTake(t)

SpecOneInsert == InitOneInsert /\ [][NextOneInsert]_vars /\ FairNoSwap /\ FairSem

\* One thread calls a.swap(a) (storm::swap(a, a) is the same call) on a queue
\* that holds up to MaxFill elements, while a producer and a try_pop work on a.
SelfSwapStep(t) ==
    \/ Begin(t) \/ InsertCV(t) \/ TryPopCV(t)
    \/ SwapLockFirst(t) \/ SwapTryOwned(t)
FairSelfSwap == \A t \in Threads : SF_vars(SelfSwapStep(t))

InitSelfSwap ==
    /\ Fresh
    /\ variant = "cv"
    /\ Roles("swap_self", "insert_a", "try_pop_a", "off")
    /\ Calls(1, MaxFill, 1, 0)

NextSelfSwap == \E t \in Threads : SelfSwapStep(t)

SpecSelfSwap == InitSelfSwap /\ [][NextSelfSwap]_vars /\ FairSelfSwap

\* test_with_concurrency(producers, consumers, ...) of mpmc_test_helpers.hpp
\* with normal_producer and normal_consumer: every worker, the last one too,
\* is handed items_per_producer = num_items / producers (items_per_consumer =
\* num_items / consumers); producer_items_left is kept but never handed out.
items_per_worker(k, w) == num_items \div w

InitHelpers ==
    /\ Fresh
    /\ variant = "cv"
    /\ \E producers, consumers \in 1..2 :
          /\ Roles("normal_producer", IF producers = 2 THEN "normal_producer" ELSE "off",
                   "normal_consumer", IF consumers = 2 THEN "normal_consumer" ELSE "off")
          /\ Calls(items_per_worker(1, producers),
                   IF producers = 2 THEN items_per_worker(2, producers) ELSE 0,
                   items_per_worker(1, consumers),
                   IF consumers = 2 THEN items_per_worker(2, consumers) ELSE 0)

SpecHelpers == InitHelpers /\ [][NextMPMC]_vars /\ FairNoSwap

\* Two threads that each emplace one element into a and two consumers that
\* each call pop_wait on a once, on either variant.
EmplaceStep(t) ==
    \/ Begin(t)
    \/ EmplaceLock(t) \/ EmplaceAppend(t) \/ EmplaceReturn(t)
    \/ PopWaitCV(t)
    \/ SemInsertLock(t) \/ SemInsertAppend(t) \/ SemInsertRelease(t)
    \/ SemAcquire(t) \/ SemLock(t) \/ SemTake(t)

InitEmplace ==
    /\ Fresh
    /\ variant \in {"cv", "sem"}
    /\ Roles("emplace_a", "emplace_a", "pop_wait_a", "pop_wait_a")
    /\ Calls(1, 1, 1, 1)

NextEmplace == \E t \in Threads : EmplaceStep(t)

SpecEmplace == InitEmplace /\ [][NextEmplace]_vars /\ FairNoSwap /\ FairSem

\* ------------------------------------------------------------------ helpers
Range(s) == {s[k] : k \in 1..Len(s)}
NoRepeat(s) == \A j, k \in 1..Len(s) : j # k => s[j] # s[k]
Idle(t) == th[t].pc = "idle"
\* The call t made last has returned.
Returned(t, o) == Idle(t) /\ th[t].op = o /\ th[t].ret.kind # "unset"

\* ------------------------------------------------------------------- claims

\* C1: FIFO order.  On every instance of either variant the values the
\* removal calls returned, in removal order, followed by the buffer, are the
\* values appended, in append order: every removal returned the element that
\* was in the buffer longest, and what a single consumer receives is what a
\* single producer inserted, in the same order.
C1_FifoOrder == \A i \in Insts : popped[i] \o q[i] = pushed[i]

\* C2: Queue-Sem try_pop returns an element when it has taken a permit, and
\* returns "none" only when it could not take one.
C2_TryPopReturnsElement ==
    \A t \in Threads :
        (variant = "sem" /\ Returned(t, "try_pop")) =>
            /\ th[t].got => th[t].ret.kind = "elem"
            /\ th[t].ret.kind = "nothing" => ~th[t].got

\* C3: conservation.  On every instance of either variant the buffer size is
\* the number of elements appended minus the number of removal calls that
\* returned an element, and no more removals succeeded than insertions; so the
\* counts are equal once the buffer is drained.
C3_Conservation ==
    \A i \in Insts :
        /\ Len(q[i]) = Len(pushed[i]) - Len(popped[i])
        /\ Len(popped[i]) <= Len(pushed[i])
        /\ q[i] = <<>> => Len(popped[i]) = Len(pushed[i])

\* C4: no double delivery.  Whatever the race between the consumers (waiters
\* of pop_wait / pop_wait_for woken together, try_pop, the notify_all of swap,
\* the permits of Queue-Sem), an element is returned by at most one removal
\* call, and what is returned was inserted.  (0 stands for the indeterminate
\* value read from an empty queue, which is no element.)
Delivered == popped["a"] \o popped["b"]
Inserted == pushed["a"] \o pushed["b"]
C4_NoDoubleDelivery ==
    \A j \in 1..Len(Delivered) :
        Delivered[j] # 0 =>
            /\ Delivered[j] \in Range(Inserted)
            /\ \A k \in 1..Len(Delivered) : k # j => Delivered[k] # Delivered[j]

\* Two consumers raced for one element of a Queue-CV instance: t returned it,
\* u was woken for it and finds the buffer empty.
C4_RaceLost ==
    \E t, u \in Threads :
        /\ t # u
        /\ Idle(t) /\ th[t].op \in Removals /\ th[t].ret.kind = "elem"
        /\ th[u].pc = "pw_wait" /\ th[u].self = th[t].self
        /\ u \notin cv[th[u].self]
        /\ q[th[u].self] = <<>>

\* C7: swap under concurrency (Queue-CV).  With swaps of a and b interleaved
\* with insertions and removals on both, the elements in a, in b and already
\* removed are exactly the elements inserted, each once; and a thread that
\* holds a mutex is never stuck: it always has a step to take, so no set of
\* threads waits for each other's mutexes.
Holds(t) == {i \in Insts : mtx[i] = t}
HolderCanMove == \A t \in Threads : Holds(t) # {} => ENABLED StepCV(t)
C7_SwapConserves ==
    /\ NoRepeat(q["a"] \o q["b"] \o Delivered)
    /\ Range(q["a"] \o q["b"] \o Delivered) = Range(Inserted)
    /\ HolderCanMove

\* A swap has handed a non-empty buffer to its instance while another thread
\* is blocked in a wait on that instance, and an element was already removed.
C7_SwappedUnderLoad ==
    \E t, u \in Threads :
        /\ th[t].pc = "sw_notify" /\ q[th[t].self] # <<>>
        /\ th[u].pc = "pw_wait" /\ th[u].self = th[t].self /\ u \in cv[th[u].self]

\* C10: Queue-CV try_pop never waits on the condition variable; holding the
\* lock it returns "none" exactly when the buffer is empty and leaves the
\* buffer alone, and otherwise removes the front element and returns it.  So
\* push(v) then try_pop, alone, returns v, and one more try_pop returns "none".
TryPopStep(t) == th[t].pc = "tp_cs" /\ th'[t].pc = "idle"
C10_TryPop ==
    /\ [](\A t \in Threads : th[t].op = "try_pop" => \A i \in Insts : t \notin cv[i])
    /\ [][\A t \in Threads : TryPopStep(t) =>
            IF q[th[t].self] = <<>>
            THEN th'[t].ret = Nothing /\ q' = q
            ELSE /\ th'[t].ret = Elem(Head(q[th[t].self]))
                 /\ q' = [q EXCEPT ![th[t].self] = Tail(@)]]_vars

\* One try_pop returned an element and another found the buffer empty.
C10_BothOutcomes ==
    \E t, u \in Threads :
        /\ Returned(t, "try_pop") /\ th[t].ret.kind = "elem"
        /\ Returned(u, "try_pop") /\ th[u].ret = Nothing
        /\ variant = "cv"

\* C5: blocking correctness (Queue-CV).  A consumer that has called pop_wait
\* on a queue nothing was inserted into yet returns, once another thread makes
\* its one insertion (push or emplace), and returns the inserted value: the
\* wake-up is not lost, however the check of the predicate and the wait of
\* the consumer interleave with the append and the notify_one of the producer.
InPopWait(t) == th[t].op = "pop_wait" /\ ~Idle(t)
C5_BlockedConsumerReturns ==
    \A t \in Threads :
        (InPopWait(t) /\ pushed[th[t].self] = <<>>)
            ~> (/\ Returned(t, "pop_wait")
                /\ Len(pushed[th[t].self]) = 1
                /\ th[t].ret = Elem(pushed[th[t].self][1]))

\* The consumer is blocked on the condition variable of the empty queue and
\* the producer has made its call.
C5_BlockedBeforeInsert ==
    \E t, u \in Threads :
        /\ th[t].pc = "pw_wait" /\ t \in cv[th[t].self]
        /\ pushed[th[t].self] = <<>>
        /\ th[u].op \in Inserts /\ th[u].self = th[t].self
        /\ th[u].pc \in {"push_lock", "emplace_lock"}

\* C6: multi-producer / multi-consumer completion (Queue-CV).  P producers
\* push num_items elements between them and C consumers call pop_wait
\* num_items times between them; under fair scheduling every thread ends, the
\* number of elements removed is then num_items, and no consumer stays blocked
\* while an element stays in the buffer.
AllDone == \A t \in Threads : Idle(t) /\ left[t] = 0
C6_AllComplete ==
    /\ <>AllDone
    /\ [](AllDone => Len(popped["a"]) = num_items /\ q["a"] = <<>>)
    /\ \A t \in Threads :
          (t \in cv["a"] /\ q["a"] # <<>>) ~> (t \notin cv["a"] \/ q["a"] = <<>>)

\* Two consumers are blocked on the condition variable while two producers
\* have both appended and neither has notified yet.
C6_TwoWaitersTwoPushes ==
    \E t, u \in cv["a"] :
        /\ t # u
        /\ \E v, w \in Threads : v # w /\ th[v].pc = "push_notify" /\ th[w].pc = "push_notify"

\* C8: opposite-order swaps.  With a.swap(b) in one thread and b.swap(a) in
\* another, no thread keeps one mutex while it waits for the other, and under
\* fair scheduling every call of swap completes.
InSwap(t) == th[t].op = "swap" /\ ~Idle(t)
C8_OppositeSwapsComplete ==
    /\ [](\A t \in Threads : (InSwap(t) /\ Holds(t) # {}) => ENABLED SwapCV(t))
    /\ \A t \in Threads : InSwap(t) ~> Returned(t, "swap")

\* Each of the two threads holds a mutex and wants the one the other holds.
C8_CrossedLocks ==
    \E t, u \in Threads :
        /\ th[t].pc = "sw_try" /\ th[u].pc = "sw_try"
        /\ mtx["a"] = t /\ mtx["b"] = u

\* C9: swap releases waiters.  The two notify_all of swap leave no thread
\* blocked on either condition variable; so a consumer in pop_wait on a queue
\* that a swap has given a non-empty buffer returns an element, unless the
\* buffer is emptied by someone else first; and a consumer that wakes up and
\* finds its queue empty blocks again, having touched nothing.
SwapNotifies(t) ==
    /\ (th[t].pc = "sw_notify" /\ th'[t].pc # "sw_notify") => cv'[th[t].self] = {}
    /\ (th[t].pc = "sw_notify_other" /\ th'[t].pc # "sw_notify_other") =>
          cv'[th[t].oth] = {}
WaitsAgain(t) ==
    (th[t].pc = "pw_pred" /\ th'[t].pc # "pw_pred" /\ q[th[t].self] = <<>>) =>
        /\ th'[t].pc = "pw_wait" /\ t \in cv'[th[t].self]
        /\ q' = q /\ popped' = popped
C9_SwapReleasesWaiters ==
    /\ [][\A t \in Threads : SwapNotifies(t) /\ WaitsAgain(t)]_vars
    /\ \A t \in Threads :
          (InPopWait(t) /\ q[th[t].self] # <<>>)
              ~> (\/ Returned(t, "pop_wait") /\ th[t].ret.kind = "elem"
                  \/ q[th[t].self] = <<>>)

\* The consumer on a returned the element that was inserted into b, and the
\* consumer on b, woken by the swap, is blocked again on its empty queue.
C9_WokenBySwap ==
    \E t, u \in Threads :
        /\ Returned(t, "pop_wait") /\ th[t].self = "a"
        /\ pushed["b"] # <<>> /\ th[t].ret = Elem(pushed["b"][1])
        /\ th[u].pc = "pw_wait" /\ th[u].self = "b" /\ u \in cv["b"]
        /\ \E w \in Threads : Returned(w, "swap")

\* C11: timeout correctness (either variant).  A bounded removal
\* (pop_wait_for, pop_wait_until) always returns; on a queue that stays empty
\* it returns "none"; and it returns "none" only once its deadline has passed
\* (in Queue-CV: and the buffer is empty then).
InBounded(t) == th[t].op \in BoundedPops /\ ~Idle(t)
ReturnsNone(t) == InBounded(t) /\ Idle(t)' /\ th'[t].ret = Nothing
C11_TimeoutCorrect ==
    /\ \A t \in Threads : InBounded(t) ~> Idle(t)
    /\ \A t \in Threads :
          (InBounded(t) /\ th[t].self = "b")
              ~> (Returned(t, "pop_wait_for") /\ th[t].ret = Nothing)
    /\ [][\A t \in Threads : ReturnsNone(t) =>
             /\ th[t].dl = "expired"
             /\ variant = "cv" => q[th[t].self] = <<>>]_vars

\* One bounded removal on a timed out and another one received the element;
\* the one on the queue that stayed empty timed out too.
C11_TimedOutAndServed ==
    \E t, u, v \in Threads :
        /\ Returned(t, "pop_wait_for") /\ th[t].self = "a" /\ th[t].ret = Nothing
        /\ Returned(u, "pop_wait_for") /\ th[u].self = "a" /\ th[u].ret.kind = "elem"
        /\ Returned(v, "pop_wait_for") /\ th[v].self = "b" /\ th[v].ret = Nothing

\* C12: no partial failure (either variant).  A removal call that returns
\* "none" (try_pop finding no element, pop_wait_for / pop_wait_until timing
\* out) has left the queue as it was: the buffer is unchanged and, in
\* Queue-Sem, no permit was taken by the call.
ReturnsNothing(t) ==
    th[t].op \in Removals /\ ~Idle(t) /\ Idle(t)' /\ th'[t].ret = Nothing
C12_NoPartialFailure ==
    [][\A t \in Threads : ReturnsNothing(t) =>
          /\ q' = q
          /\ available' = available
          /\ ~th'[t].got]_vars

\* C13: Queue-Sem permit invariant.  In every state the counter of the
\* semaphore is the number of elements in the buffer minus the consumers that
\* have taken a permit and not yet removed their element (an insertion that
\* has appended and not yet called release() is counted as not yet made).
Reserved(i) ==
    {t \in Threads : th[t].self = i /\ th[t].pc \in {"s_lock", "s_take"} /\ th[t].got}
Unreleased(i) == {t \in Threads : th[t].self = i /\ th[t].pc = "s_ins_release"}
C13_PermitInvariant ==
    variant = "sem" =>
        \A i \in Insts :
            available[i] =
                Len(q[i]) - Cardinality(Unreleased(i)) - Cardinality(Reserved(i))

\* C14: Queue-Sem, a permit implies an element.  An insertion releases one
\* permit, and only once its element has been appended; so the permits out
\* (in the counter or held by a consumer that has not removed yet) never
\* exceed the elements in the buffer, and a consumer that took a permit in
\* pop_wait, pop_wait_for or pop_wait_until finds the buffer non-empty when it
\* has the lock, whatever the other producers and consumers do.
Releases(t) == th[t].pc = "s_ins_release" /\ Idle(t)'
C15_PermitBeforeLock ==
    variant = "sem" =>
        /\ \A t \in Threads : th[t].pc \in {"s_lock", "s_take"} => th[t].got
        /\ ~ub

\* C16: the lock is never held across a suspension.  A thread suspended for
\* an element (in the wait on the condition variable in Queue-CV, in the
\* acquire of the semaphore in Queue-Sem) holds the mutex of no queue, neither
\* exclusively nor shared: producers and the other consumers can take it.
Suspended(t) == th[t].pc \in {"pw_wait", "s_acquire", "s_acquire_for"}
C16_NoLockWhileSuspended ==
    \A t \in Threads :
        Suspended(t) => Holds(t) = {} /\ \A i \in Insts : t \notin rd[i]

\* A consumer is blocked on the condition variable of a queue while a producer
\* is inside its critical section on the same queue.
C16_ProducerInsideWhileBlocked ==
    \E t, u \in Threads :
        /\ th[t].pc = "pw_wait" /\ t \in cv[th[t].self]
        /\ mtx[th[t].self] = u /\ th[u].op \in Inserts

\* C17: producers never block (either variant).  push and emplace never wait
\* on the condition variable or on the semaphore, and under fair lock
\* scheduling every insertion returns, whatever is in the buffer already and
\* whether the consumers run, are blocked, or never call.
InInsert(t) == th[t].op \in Inserts /\ ~Idle(t)
C17_ProducersNeverBlock ==
    /\ [](\A t \in Threads :
             InInsert(t) => ~Suspended(t) /\ \A i \in Insts : t \notin cv[i])
    /\ \A t \in Threads : InInsert(t) ~> (Idle(t) /\ th[t].ret.kind \in {"void", "copy"})

\* A producer starts an insertion into a buffer that already holds two
\* elements while both consumers are blocked.
C17_InsertWhileConsumersBlocked ==
    \E t \in Threads :
        /\ InInsert(t) /\ mtx[th[t].self] # t
        /\ Len(q[th[t].self]) = 2
        /\ \A u \in Threads :
              role[u] \in {"pop_wait_a", "pop_wait_b"} =>
                  th[u].pc \in {"pw_wait", "s_acquire"}

\* C18: multi-producer / multi-consumer completion (Queue-Sem).  Producers
\* insert num_items elements between them, consumers call pop_wait num_items
\* times between them.  Under fair scheduling every pop_wait takes a permit
\* and returns an element, no two of them the same one; every consumer that
\* holds a permit has an element of its own in the buffer; and in the end
\* nobody is blocked and nothing is left.
InSemPopWait(t) == variant = "sem" /\ th[t].op = "pop_wait" /\ ~Idle(t)
C18_SemAllComplete ==
    /\ \A t \in Threads : InSemPopWait(t) ~> (Idle(t) /\ th[t].ret.kind = "elem")
    /\ <>AllDone
    /\ [](Cardinality(Reserved("a")) <= Len(q["a"]))
    /\ [](NoRepeat(popped["a"]) /\ Range(popped["a"]) \subseteq Range(pushed["a"]))
    /\ [](AllDone => /\ Len(popped["a"]) = num_items
                     /\ q["a"] = <<>> /\ available["a"] = 0)

\* Two consumers wait for a permit while two producers have both appended
\* and neither has released yet.
C18_TwoBlockedTwoUnreleased ==
    /\ variant = "sem" /\ available["a"] = 0
    /\ Cardinality({t \in Threads : th[t].pc = "s_acquire"}) = 2
    /\ Cardinality(Unreleased("a")) = 2

\* C19: swap exchanges whole contents.  With nothing else in flight, after
\* a.swap(b) (or swap(a, b)) a holds the sequence b held, in the same order,
\* and b the sequence a held; b.swap(a) gives the same; so after an odd
\* number of swaps the two contents are exchanged and after an even number
\* each queue holds its own again.
SwapsMade == MaxSwaps - left["t1"]
C19_SwapExchangesContents ==
    /\ [](Idle("t1") =>
            IF SwapsMade % 2 = 1
            THEN q["a"] = pushed["b"] /\ q["b"] = pushed["a"]
            ELSE q = pushed)
    /\ [][\A t \in Threads :
            (th[t].pc = "sw_cs" /\ th'[t].pc # "sw_cs") =>
                /\ q'[th[t].self] = q[th[t].oth]
                /\ q'[th[t].oth] = q[th[t].self]]_vars

\* Two swaps have returned, the second of them b.swap(a), and the queues, of
\* different lengths, hold again what they held at first.
C19_SwappedTwice ==
    /\ Returned("t1", "swap") /\ SwapsMade = 2 /\ th["t1"].self = "b"
    /\ Len(q["a"]) = 2 /\ Len(q["b"]) = 1

\* C20: size and empty accounting (Queue-CV, one thread).  size() is the
\* number of insertions minus the number of removals, so n after n insertions
\* by push and emplace; empty() is true exactly when size() is 0; try_pop
\* returns "none" only on an empty queue, so draining while !empty() returns
\* each of the n elements; and size() and empty() change nothing but the shared
\* lock they hold in between.
InQuery(t) == th[t].op \in Queries /\ ~Idle(t)
C20_SizeAndEmpty ==
    /\ [](Returned("t1", "size") =>
             /\ th["t1"].ret = Ret("size", 0, Len(pushed["a"]) - Len(popped["a"]))
             /\ popped["a"] = <<>> => th["t1"].ret.num = nid)
    /\ [](Returned("t1", "empty") =>
             /\ th["t1"].ret.kind = "bool"
             /\ th["t1"].ret.num = 1 <=> Len(pushed["a"]) - Len(popped["a"]) = 0)
    /\ [](Returned("t1", "try_pop") =>
             /\ th["t1"].ret = Nothing => q["a"] = <<>>
             /\ th["t1"].ret.kind \in {"nothing", "elem"})
    /\ [](popped["a"] \o q["a"] = pushed["a"])
    /\ [][\A t \in Threads : InQuery(t) =>
             /\ <<q, mtx, cv, available, hist>>' = <<q, mtx, cv, available, hist>>
             /\ rd'["a"] \subseteq {t}]_vars

\* Two insertions were drained by two try_pop and empty() has returned true.
C20_Drained ==
    /\ Returned("t1", "empty") /\ th["t1"].ret.num = 1
    /\ Len(pushed["a"]) = 2 /\ popped["a"] = pushed["a"]

\* C21: the lock and the signal in Queue-CV.  push, by copy or by move, and
\* swap signal the condition variable only once the calling thread holds no
\* mutex; emplace signals inside its critical section, still the holder of the
\* mutex of its queue, and releases it on return.
NotifyPcs == {"push_notify", "emplace_cs", "sw_notify", "sw_notify_other"}
Notifies(t) == th[t].pc \in NotifyPcs /\ th'[t].pc # th[t].pc
C21_NotifyOutsideLockButEmplace ==
    [][\A t \in Threads : Notifies(t) =>
          IF th[t].op = "emplace"
          THEN Holds(t) = {th[t].self} /\ mtx'[th[t].self] = t
          ELSE Holds(t) = {} /\ \A i \in Insts : mtx'[i] # t]_vars

\* Every operation that signals does so after it released the mutex.
C21_NotifyAfterUnlock ==
    [][\A t \in Threads : Notifies(t) => Holds(t) = {}]_vars

\* An emplace has woken a consumer and still holds the mutex the consumer
\* needs, after a push and a swap signalled holding none.
C21_WokenUnderLock ==
    \E t, u \in Threads :
        /\ th[t].pc = "emplace_ret" /\ mtx[th[t].self] = t
        /\ th[u].pc = "pw_wait" /\ th[u].self = th[t].self
        /\ u \notin cv[th[u].self]
        /\ \E v \in Threads : Returned(v, "push") \/ Returned(v, "swap")

\* C22: the state machine of a blocking removal of Queue-CV.  A consumer in
\* pop_wait or in a bounded pop that evaluates the predicate on an empty
\* buffer, however it was woken, leaves the buffer alone and blocks again,
\* unless its wait is bounded and the deadline has passed, when it returns
\* "no element"; pop_wait returns only by the step that removes the front
\* element, and a bounded pop ends only with the element it removed or with
\* "no element" after its deadline.
InBlockingPop(t) == (InPopWait(t) \/ InBounded(t)) /\ variant = "cv"
Rechecks(t) ==
    InBlockingPop(t) /\ th[t].pc \in {"pw_pred", "pw_timeout"} /\ th'[t] # th[t]
Removes(t) ==
    /\ q[th[t].self] # <<>>
    /\ q' = [q EXCEPT ![th[t].self] = Tail(@)]
    /\ th'[t].ret = Elem(Head(q[th[t].self]))
TimesOut(t) ==
    /\ th[t].op \in BoundedPops /\ th[t].dl = "expired"
    /\ th'[t].ret = Nothing /\ q' = q /\ popped' = popped
C22_BlockingRemoval ==
    /\ [][\A t \in Threads :
             /\ (Rechecks(t) /\ q[th[t].self] = <<>>) =>
                   \/ /\ th[t].pc = "pw_pred" /\ th'[t].pc = "pw_wait"
                      /\ t \in cv'[th[t].self] /\ mtx'[th[t].self] = NoOne
                      /\ q' = q /\ popped' = popped
                   \/ th[t].pc = "pw_timeout" /\ Idle(t)' /\ TimesOut(t)
             /\ (InBlockingPop(t) /\ Idle(t)') =>
                   \/ Removes(t)
                   \/ InBounded(t) /\ TimesOut(t)]_vars
    /\ [](\A t \in Threads :
             /\ InBlockingPop(t) =>
                   th[t].pc \in {"pw_lock", "pw_pred", "pw_wait", "pw_timeout", "pw_take"}
             /\ (InPopWait(t) /\ variant = "cv") => th[t].pc # "pw_timeout")

\* A consumer has been woken on a buffer that is empty again: the element that
\* was inserted has already gone to another removal.
C22_WokenOnEmpty ==
    \E t \in Threads :
        /\ InBlockingPop(t) /\ th[t].pc = "pw_wait"
        /\ t \notin cv[th[t].self]
        /\ q[th[t].self] = <<>> /\ popped[th[t].self] # <<>>

\* C23: mutual exclusion on the buffer.  In every state at most one thread is
\* at a statement that reads or changes the buffer of a queue inside a push,
\* an emplace, a removal or a swap, and it is the exclusive owner of the mutex
\* of that queue; no thread is then between the lock and the unlock of a
\* size() or an empty() on that queue; and a swap that exchanges the buffers
\* owns the mutexes of both queues.
InWriteSection(t, i) ==
    \/ /\ th[t].self = i
       /\ th[t].pc \in {"push_cs", "emplace_cs", "emplace_ret", "tp_cs", "pw_pred",
                        "pw_timeout", "pw_take", "s_ins_cs", "s_take"}
    \/ th[t].pc = "sw_cs" /\ i \in {th[t].self, th[t].oth}
InReadSection(t, i) == th[t].pc = "rd_cs" /\ th[t].self = i
C23_MutualExclusion ==
    \A i \in Insts : \A t \in Threads :
        /\ InWriteSection(t, i) =>
              /\ mtx[i] = t
              /\ \A u \in Threads \ {t} :
                    ~InWriteSection(u, i) /\ ~InReadSection(u, i)
        /\ InReadSection(t, i) => t \in rd[i] /\ mtx[i] = NoOne
        /\ th[t].pc = "sw_cs" => mtx[th[t].self] = t /\ mtx[th[t].oth] = t

\* A swap owns both mutexes while a producer, a consumer and a reader of the
\* same queue are held back at their locks.
C23_SwapHoldsBoth ==
    \E t, u, v \in Threads :
        /\ th[t].pc = "sw_cs" /\ mtx["a"] = t /\ mtx["b"] = t
        /\ th[u].pc \in {"push_lock", "emplace_lock", "tp_lock", "pw_lock"}
        /\ th[v].pc = "rd_lock"
        /\ q["a"] # <<>>

\* C24: one insertion releases exactly one consumer.  With two or more
\* consumers blocked in pop_wait on an empty queue and a single push or
\* emplace, one consumer returns, with the inserted element; no other consumer
\* returns or gets as far as the removal, on Queue-CV (one waiter is notified,
\* and a waiter that wakes up for no reason blocks again) and on Queue-Sem
\* (one permit).
Blocked(t) ==
    /\ InPopWait(t)
    /\ IF variant = "cv" THEN th[t].pc = "pw_wait" /\ t \in cv[th[t].self]
                         ELSE th[t].pc = "s_acquire"
Taking(t) == th[t].pc \in {"pw_take", "s_lock", "s_take"}
C24_OneInsertionOneConsumer ==
    /\ [](\A t \in Threads : Returned(t, "pop_wait") =>
             /\ th[t].ret = Elem(1) /\ pushed["a"] = <<1>> /\ q["a"] = <<>>
             /\ \A u \in Threads \ {t} :
                   ~Returned(u, "pop_wait") /\ ~Taking(u)
                   /\ (th[u].op = "pop_wait" => InPopWait(u)))
    /\ [](Cardinality({t \in Threads : Taking(t)}) <= 1)
    /\ (Cardinality({t \in Threads : Blocked(t)}) >= 2 /\ nid = 0)
          ~> (\E t \in Threads : Returned(t, "pop_wait"))

\* The producer and one consumer have returned, the consumer with the
\* element, and the other two consumers are blocked.
C24_OneServedOthersBlocked ==
    \E t \in Threads :
        /\ Returned(t, "pop_wait") /\ th[t].ret = Elem(1)
        /\ \E p \in Threads : Idle(p) /\ th[p].op \in Inserts
        /\ Cardinality({u \in Threads : Blocked(u)}) = 2

\* C25: Queue-Sem accounting without try_pop.  Under push, emplace, pop_wait
\* and the bounded pops, in every state the permits in the counter, plus the
\* consumers that took a permit and have not removed yet, plus the insertions
\* that appended and have not released yet, are as many as the elements in
\* the buffer; when no call is in flight the counter is the buffer size.
InFlight(i) == {t \in Threads : th[t].self = i /\ ~Idle(t)}
C25_SemAccounting ==
    \A i \in Insts :
        /\ available[i] + Cardinality(Reserved(i)) + Cardinality(Unreleased(i))
              = Len(q[i])
        /\ Reserved(i) \cap Unreleased(i) = {}
        /\ InFlight(i) = {} => available[i] = Len(q[i])
        /\ available[i] >= 0

\* Nothing is in flight and two permits stand for the two elements in the
\* buffer, after a bounded pop that timed out on the empty queue.
C25_QuiescentWithPermits ==
    /\ \A t \in Threads : Idle(t)
    /\ available["a"] = 2 /\ Len(q["a"]) = 2
    /\ \E t \in Threads : th[t].op = "pop_wait_for" /\ th[t].ret = Nothing

\* C26: the bounded pops of Queue-CV evaluate the predicate again at the
\* deadline.  A pop_wait_for / pop_wait_until whose wait ended by the deadline
\* holds the lock and looks at the buffer: empty, it returns "none" and
\* releases the lock; not empty, it keeps the lock, removes the front element
\* and returns it.  It returns "none" in no other way.
AtDeadline(t) == variant = "cv" /\ th[t].pc = "pw_timeout" /\ th'[t] # th[t]
C26_PredicateAtDeadline ==
    /\ [][\A t \in Threads :
             /\ AtDeadline(t) =>
                   /\ mtx[th[t].self] = t /\ th[t].dl = "expired" /\ q' = q
                   /\ IF q[th[t].self] = <<>>
                      THEN Idle(t)' /\ th'[t].ret = Nothing /\ mtx'[th[t].self] = NoOne
                      ELSE th'[t].pc = "pw_take" /\ mtx'[th[t].self] = t
             /\ (variant = "cv" /\ ReturnsNone(t)) =>
                   th[t].pc = "pw_timeout" /\ q[th[t].self] = <<>>
             /\ (variant = "cv" /\ th[t].pc = "pw_take" /\ th'[t] # th[t]) =>
                   Idle(t)' /\ Removes(t)]_vars
    /\ [](\A t \in Threads :
             (variant = "cv" /\ th[t].pc = "pw_take") =>
                 mtx[th[t].self] = t /\ q[th[t].self] # <<>>)

\* A bounded pop has the lock again after its deadline, has found an element in
\* the buffer and is about to remove it.
C26_ElementAtDeadline ==
    \E t \in Threads :
        /\ variant = "cv" /\ InBounded(t)
        /\ th[t].pc = "pw_take" /\ th[t].dl = "expired"
        /\ q[th[t].self] # <<>>

\* C27: self-swap.  A call a.swap(a) on Queue-CV returns, having released
\* the mutex of a, and none of its steps changes the buffer of a.
InSelfSwap(t) == InSwap(t) /\ th[t].oth = th[t].self
C27_SelfSwapReturns ==
    /\ \A t \in Threads :
          InSelfSwap(t) ~>
              (Returned(t, "swap") /\ th[t].ret = Void /\ mtx[th[t].self] # t)
    /\ [][\A t \in Threads : (InSelfSwap(t) /\ th'[t] # th[t]) => q' = q]_vars

\* C28: work distribution of the helper harness.  The counts handed to the
\* producers add up to num_items and so do the counts handed to the
\* consumers (the last worker gets the remainder of the division), every
\* pop_wait of normal_consumer is matched by a push of normal_producer, and
\* under fair scheduling all workers end.
ProducerItems == left["t1"] + left["t2"] + nid
ConsumerItems ==
    left["t3"] + left["t4"] + Len(popped["a"])
        + Cardinality({t \in Threads : InPopWait(t)})
C28_HelperDistribution ==
    /\ [](ProducerItems = num_items /\ ConsumerItems = num_items)
    /\ <>AllDone
    /\ [](AllDone => Len(pushed["a"]) = num_items /\ popped["a"] = pushed["a"])

\* C29: what emplace hands back.  Queue-CV emplace returns to the caller its
\* own copy of the element it inserted, made inside the critical section, and
\* Queue-Sem emplace returns nothing; no caller ever holds a reference to an
\* element of the buffer, so what the caller holds is untouched by the removal
\* of the element it inserted.
HoldsReference(t) == th[t].ret.kind = "ref"
Removed(e) == \E i \in Insts : e \in Range(popped[i])
C29_EmplaceReturnsCopy ==
    \A t \in Threads :
        /\ ~HoldsReference(t)
        /\ Returned(t, "emplace") =>
              IF variant = "cv"
              THEN /\ th[t].ret.kind = "copy"
                   /\ th[t].ret.elem \in Range(pushed[th[t].self])
                   /\ th[t].ret.elem # 0
              ELSE th[t].ret = Void

\* On Queue-CV the caller of emplace comes to hold a reference to the element
\* it inserted once a concurrent removal has removed that element.
C29_DanglingReference ==
    variant = "cv" =>
        <>(\E t \in Threads :
              /\ Returned(t, "emplace") /\ HoldsReference(t)
              /\ Removed(th[t].ret.elem))

\* The caller of emplace on Queue-CV holds its copy while a pop_wait of
\* another thread has returned with the element inserted.
C29_CopyOutlivesElement ==
    \E t, u \in Threads :
        /\ variant = "cv"
        /\ Returned(t, "emplace") /\ th[t].ret.kind = "copy"
        /\ Returned(u, "pop_wait") /\ th[u].ret = Elem(th[t].ret.elem)
        /\ Removed(th[t].ret.elem)

====
